---- MODULE Spec2Model ----
(***************************************************************************)
(* The readmission data-engineering notebook (01_data_engineering_pipeline *)
(* .py) as a state machine.  The bronze tables are the input snapshot; the *)
(* notebook's cells run in order: silver patients, silver diagnoses,       *)
(* silver lab results, silver medications, gold features, quality metrics. *)
(*                                                                         *)
(* Conventions.  A table is a sequence of records (one per row); a cleaned *)
(* table keeps row i of its input at position i, so that a record can be   *)
(* followed through a stage.  A nullable column holds NULL (the empty      *)
(* tuple) or Some(v) (a one-element tuple).  A string on which the code    *)
(* computes (upper, regexp_replace, rlike, to_date, concat_ws) is a tuple  *)
(* of one-character strings; a string that is only compared is a TLA+      *)
(* string.  processed_date / ingest_date timestamps are left out.          *)
(***************************************************************************)
EXTENDS Integers, Sequences, FiniteSets, TLC

VARIABLES
    pc,                 \* the notebook cell that runs next
    patients_bronze,    \* bronze/patients
    diagnoses_bronze,   \* bronze/diagnoses
    labs_bronze,        \* bronze/lab_results
    meds_bronze,        \* bronze/medications
    patients_silver,    \* silver/patients
    diagnoses_silver,   \* silver/diagnoses
    labs_silver,        \* silver/lab_results
    meds_silver,        \* silver/medications
    gold,               \* gold/patient_readmission_features
    metrics,            \* gold/data_quality_metrics
    written,            \* the set of tables some run has written
    run_written         \* the set of tables the current run has written

vars == <<pc, patients_bronze, diagnoses_bronze, labs_bronze, meds_bronze,
          patients_silver, diagnoses_silver, labs_silver, meds_silver,
          gold, metrics, written, run_written>>

bronze == <<patients_bronze, diagnoses_bronze, labs_bronze, meds_bronze>>

-----------------------------------------------------------------------------
(* Nullable values *)

NULL == << >>

Some(v) == <<v>>

IsNull(o) == o = NULL

Val(o) == o[1]

(* F.coalesce(col, lit) *)
Coalesce(o, d) == IF IsNull(o) THEN Some(d) ELSE o

Range(s) == {s[i] : i \in DOMAIN s}

(* the sequence s as a tuple of values: TLC evaluates [i \in S |-> e]     *)
(* anew at every application, and a concatenation evaluates it once        *)
Evaluated(s) == s \o << >>

Min2(a, b) == IF a <= b THEN a ELSE b

-----------------------------------------------------------------------------
(* Characters and strings *)

LowerChars == <<"a","b","c","d","e","f","g","h","i","j","k","l","m",
                "n","o","p","q","r","s","t","u","v","w","x","y","z">>

UpperChars == <<"A","B","C","D","E","F","G","H","I","J","K","L","M",
                "N","O","P","Q","R","S","T","U","V","W","X","Y","Z">>

DigitChars == <<"0","1","2","3","4","5","6","7","8","9">>

(* The characters of the model in the order of their code points: Spark    *)
(* orders strings by their bytes.                                          *)
CharOrder == <<" ", "-", ".", "/">> \o DigitChars \o UpperChars
             \o LowerChars \o <<"|">>

CharCodes ==
    LET code == [c \in Range(CharOrder) |-> CHOOSE k \in DOMAIN CharOrder : CharOrder[k] = c]
    IN  code @@ code

CharCode(c) == CharCodes[c]

DigitSet == Range(DigitChars)

IsDigit(c) == c \in DigitSet

DigitValues ==
    LET value == [c \in DigitSet |-> CharCodes[c] - CharCodes["0"]]
    IN  value @@ value

DigitVal(c) == DigitValues[c]

(* the upper-case letter of each lower-case letter *)
UpperOf ==
    LET upper == [c \in Range(LowerChars) |->
                     UpperChars[CHOOSE k \in DOMAIN LowerChars : LowerChars[k] = c]]
    IN  upper @@ upper

LowerSet == Range(LowerChars)

(* F.upper on one character *)
UpperChar(c) == IF c \in LowerSet THEN UpperOf[c] ELSE c

(* F.upper on a non-null string *)
UpperStr(s) == Evaluated([k \in DOMAIN s |-> UpperChar(s[k])])

(* F.upper on a nullable string column: null stays null *)
Upper(o) == IF IsNull(o) THEN NULL ELSE Some(UpperStr(Val(o)))

(* s < t in Spark's string order (by code point, a proper prefix first) *)
StrLess(s, t) ==
    \E k \in 1..(Min2(Len(s), Len(t)) + 1) :
        /\ \A j \in 1..(k - 1) : s[j] = t[j]
        /\ \/ k > Len(s) /\ k <= Len(t)
           \/ k <= Len(s) /\ k <= Len(t) /\ CharCode(s[k]) < CharCode(t[k])

(* pat occurs in s at position k *)
OccursAt(pat, s, k) ==
    /\ k + Len(pat) - 1 <= Len(s)
    /\ \A j \in 1..Len(pat) : s[k + j - 1] = pat[j]

(* col.rlike(pat) for a pattern of literal characters: pat occurs in s *)
Contains(s, pat) == \E k \in 1..(Len(s) + 1) : OccursAt(pat, s, k)

RECURSIVE JoinWith(_, _)
JoinWith(sep, ss) ==
    IF ss = << >> THEN << >>
    ELSE IF Len(ss) = 1 THEN ss[1]
    ELSE ss[1] \o sep \o JoinWith(sep, Tail(ss))

(* F.concat_ws(sep, cols...): the non-null columns joined by sep; a null   *)
(* column is skipped, and the result is never null.                        *)
ConcatWs(sep, cols) ==
    LET present == SelectSeq(cols, LAMBDA o : ~IsNull(o))
    IN  JoinWith(sep, [k \in DOMAIN present |-> Val(present[k])])

-----------------------------------------------------------------------------
(* Dates *)

IsLeap(y) == (y % 4 = 0 /\ y % 100 # 0) \/ y % 400 = 0

DaysInMonth(y, m) ==
    IF m = 2 THEN (IF IsLeap(y) THEN 29 ELSE 28)
    ELSE IF m \in {4, 6, 9, 11} THEN 30 ELSE 31

ValidDate(y, m, d) ==
    /\ y >= 1
    /\ m \in 1..12
    /\ d \in 1..DaysInMonth(y, m)

(* the number written by the digits s[from..to] *)
RECURSIVE DigitsVal(_, _, _)
DigitsVal(s, from, to) ==
    IF to < from THEN 0
    ELSE 10 * DigitsVal(s, from, to - 1) + DigitVal(s[to])

AllDigits(s, from, to) == \A k \in from..to : IsDigit(s[k])

(* rlike(r"^\d{2}/\d{2}/\d{4}$") on a non-null string *)
MatchesSlashDate(s) ==
    /\ Len(s) = 10
    /\ AllDigits(s, 1, 2) /\ s[3] = "/"
    /\ AllDigits(s, 4, 5) /\ s[6] = "/"
    /\ AllDigits(s, 7, 10)

MakeDate(y, m, d) == IF ValidDate(y, m, d) THEN Some([y |-> y, m |-> m, d |-> d]) ELSE NULL

(* F.to_date(col, "MM/dd/yyyy"): null when the text is not such a date *)
ToDateSlash(o) ==
    IF IsNull(o) THEN NULL
    ELSE LET s == Val(o)
         IN  IF MatchesSlashDate(s)
             THEN MakeDate(DigitsVal(s, 7, 10), DigitsVal(s, 1, 2), DigitsVal(s, 4, 5))
             ELSE NULL

(* F.to_date(col, "yyyy-MM-dd"): null when the text is not such a date *)
ToDateIso(o) ==
    IF IsNull(o) THEN NULL
    ELSE LET s == Val(o)
         IN  IF /\ Len(s) = 10
                /\ AllDigits(s, 1, 4) /\ s[5] = "-"
                /\ AllDigits(s, 6, 7) /\ s[8] = "-"
                /\ AllDigits(s, 9, 10)
             THEN MakeDate(DigitsVal(s, 1, 4), DigitsVal(s, 6, 7), DigitsVal(s, 9, 10))
             ELSE NULL

(* "Parse DOB in multiple formats": MM/dd/yyyy when the text has that      *)
(* shape, otherwise yyyy-MM-dd.                                            *)
ParseDob(o) ==
    IF ~IsNull(o) /\ MatchesSlashDate(Val(o))
    THEN ToDateSlash(o)
    ELSE ToDateIso(o)

(* n written with at least w digits *)
RECURSIVE Digits(_, _)
Digits(n, w) ==
    IF w <= 1 /\ n < 10 THEN <<DigitChars[n + 1]>>
    ELSE Digits(n \div 10, w - 1) \o <<DigitChars[(n % 10) + 1]>>

(* a date column cast to string, as concat_ws does: yyyy-MM-dd *)
DateToString(o) ==
    IF IsNull(o) THEN NULL
    ELSE Some(Digits(Val(o).y, 4) \o <<"-">> \o Digits(Val(o).m, 2)
              \o <<"-">> \o Digits(Val(o).d, 2))

-----------------------------------------------------------------------------
(* 2.1 Silver layer: clean patients (deduplication) *)

(* STEP 1, df_patients_clean: the typed columns of one bronze row *)
PatientClean(r) ==
    [patient_id         |-> r.patient_id,
     first_name         |-> r.first_name,
     last_name          |-> r.last_name,
     date_of_birth      |-> ParseDob(r.date_of_birth),
     age                |-> r.age,
     admission_date     |-> ToDateIso(r.admission_date),
     discharge_date     |-> ToDateIso(r.discharge_date),
     length_of_stay     |-> r.length_of_stay,
     readmitted_30_days |-> r.readmitted_30_days]

(* PatientQualityIssue with the age rules moved before the name rules *)
PatientQualityIssue_AgeFirst(c) ==
    IF ~IsNull(c.age) /\ Val(c.age) < 0 THEN Some("invalid_age")
    ELSE IF ~IsNull(c.age) /\ Val(c.age) > 120 THEN Some("invalid_age")
    ELSE IF IsNull(c.first_name) THEN Some("null_first_name")
    ELSE IF IsNull(c.last_name) THEN Some("null_last_name")
    ELSE IF IsNull(c.admission_date) THEN Some("null_admission_date")
    ELSE IF ~IsNull(c.length_of_stay) /\ Val(c.length_of_stay) <= 0
         THEN Some("invalid_los")
    ELSE NULL

(* STEP 2, df_patients_quality: the first matching rule gives the flag; a  *)
(* comparison with a null column is null and does not match.               *)
PatientQualityIssue(c) ==
    IF IsNull(c.first_name) THEN Some("null_first_name")
    ELSE IF IsNull(c.last_name) THEN Some("null_last_name")
    ELSE IF ~IsNull(c.age) /\ Val(c.age) < 0 THEN Some("invalid_age")
    ELSE IF ~IsNull(c.age) /\ Val(c.age) > 120 THEN Some("invalid_age")
    ELSE IF IsNull(c.admission_date) THEN Some("null_admission_date")
    ELSE IF ~IsNull(c.length_of_stay) /\ Val(c.length_of_stay) <= 0
         THEN Some("invalid_los")
    ELSE NULL

(* STEP 3, df_for_dedup: patient_fingerprint of one cleaned row *)
PatientFingerprint(c) ==
    ConcatWs(<<"|">>, <<Upper(c.first_name), Upper(c.last_name),
                        DateToString(c.date_of_birth)>>)

(* IdPrecedes with the order reversed, as orderBy(F.col("patient_id").desc()) *)
IdPrecedes_Descending(a, b) ==
    \/ IsNull(b) /\ ~IsNull(a)
    \/ ~IsNull(a) /\ ~IsNull(b) /\ Val(b) < Val(a)

(* orderBy(F.col("patient_id")): a sorts strictly before b (ascending,     *)
(* nulls first)                                                            *)
IdPrecedes(a, b) ==
    \/ IsNull(a) /\ ~IsNull(b)
    \/ ~IsNull(a) /\ ~IsNull(b) /\ Val(a) < Val(b)

(* F.row_number().over(window_spec): the numberings Spark may produce for  *)
(* the rows with fingerprints fps and identifiers ids.  Within a partition *)
(* the rows are numbered 1.. in the order of patient_id; rows that tie on  *)
(* patient_id are numbered in an order the engine picks.                   *)
RowNumbers(fps, ids) ==
    {rn \in [DOMAIN fps -> 1..Len(fps)] :
        /\ \A i \in DOMAIN fps :
              rn[i] <= Cardinality({j \in DOMAIN fps : fps[j] = fps[i]})
        /\ \A i, j \in DOMAIN fps :
              (i # j /\ fps[i] = fps[j]) =>
                  /\ rn[i] # rn[j]
                  /\ IdPrecedes(ids[i], ids[j]) => rn[i] < rn[j]}

(* DenseRank as F.row_number() over the same window: equal fingerprints   *)
(* get different numbers                                                   *)
DenseRank_AsRowNumber(fps, i) ==
    Cardinality({j \in DOMAIN fps :
                    StrLess(fps[j], fps[i]) \/ (fps[j] = fps[i] /\ j <= i)})

(* F.dense_rank().over(Window.orderBy("patient_fingerprint")) of row i:    *)
(* the number of distinct fingerprints not after its own                   *)
DenseRank(fps, i) ==
    Cardinality({fps[j] : j \in {j \in DOMAIN fps :
                                    fps[j] = fps[i] \/ StrLess(fps[j], fps[i])}})

(* F.when(row_num > 1, 1).otherwise(0) *)
IsDuplicate(row_num) == IF row_num > 1 THEN 1 ELSE 0

(* df_patients_silver: the cleaned row c with its dense rank and row number *)
PatientSilverRow(c, dense_rank, row_num) ==
    [patient_key         |-> dense_rank,
     original_patient_id |-> c.patient_id,
     first_name          |-> c.first_name,
     last_name           |-> c.last_name,
     date_of_birth       |-> c.date_of_birth,
     age                 |-> c.age,
     admission_date      |-> c.admission_date,
     discharge_date      |-> c.discharge_date,
     length_of_stay      |-> c.length_of_stay,
     readmitted_30_days  |-> c.readmitted_30_days,
     is_duplicate        |-> IsDuplicate(row_num),
     data_quality_issue  |-> PatientQualityIssue(c)]

(* PatientsSilverRows with the duplicates filtered out instead of flagged *)
PatientsSilverRows_DropDuplicates(bronzeTable, rn) ==
    LET clean == Evaluated([k \in DOMAIN bronzeTable |-> PatientClean(bronzeTable[k])])
        fps   == Evaluated([k \in DOMAIN bronzeTable |-> PatientFingerprint(clean[k])])
    IN  SelectSeq([i \in DOMAIN bronzeTable |->
                      PatientSilverRow(clean[i], DenseRank(fps, i), rn[i])],
                  LAMBDA r : r.is_duplicate = 0)

(* the rows of df_patients_silver, given the row numbers rn *)
PatientsSilverRows(bronzeTable, rn) ==
    LET clean == Evaluated([k \in DOMAIN bronzeTable |-> PatientClean(bronzeTable[k])])
        fps   == Evaluated([k \in DOMAIN bronzeTable |-> PatientFingerprint(clean[k])])
    IN  [i \in DOMAIN bronzeTable |->
            PatientSilverRow(clean[i], DenseRank(fps, i), rn[i])]

(* the fingerprints and identifiers of a bronze patient table *)
FingerprintsOf(bronzeTable) ==
    Evaluated([k \in DOMAIN bronzeTable |->
                  PatientFingerprint(PatientClean(bronzeTable[k]))])

IdsOf(bronzeTable) == [k \in DOMAIN bronzeTable |-> bronzeTable[k].patient_id]

(* The cell "2.1 Silver Layer: Clean Patients": read bronze, clean, flag,  *)
(* deduplicate, overwrite silver/patients.                                 *)
SilverPatients ==
    /\ pc = "silver_patients"
    /\ \E rn \in RowNumbers(FingerprintsOf(patients_bronze), IdsOf(patients_bronze)) :
          patients_silver' = PatientsSilverRows(patients_bronze, rn)
    /\ written' = written \cup {"silver_patients"}
    /\ run_written' = run_written \cup {"silver_patients"}
    /\ pc' = "silver_diagnoses"
    /\ UNCHANGED <<bronze, diagnoses_silver, labs_silver, meds_silver, gold, metrics>>

-----------------------------------------------------------------------------
(* 2.2 Silver layer: clean diagnoses (standardize codes) *)

(* StripHyphenPeriod with the pattern r"[.]": hyphens stay *)
StripHyphenPeriod_PeriodOnly(s) == SelectSeq(s, LAMBDA c : c # ".")

(* F.regexp_replace(col, r"[-.]", ""): every hyphen and period removed *)
StripHyphenPeriod(s) == SelectSeq(s, LAMBDA c : c \notin {"-", "."})

(* diagnosis_code_standard: uppercase, then strip; null stays null *)
DiagnosisCodeStandard(o) ==
    IF IsNull(o) THEN NULL ELSE Some(StripHyphenPeriod(UpperStr(Val(o))))

(* the flag of a diagnosis row with standard code std *)
DiagnosisQualityIssue(std, description) ==
    IF ~IsNull(std) /\ Val(std) = << >> THEN Some("empty_code")
    ELSE IF IsNull(description) THEN Some("null_description")
    ELSE NULL

(* df_diagnoses_silver: one bronze row cleaned *)
DiagnosisSilverRow(r) ==
    LET std == DiagnosisCodeStandard(r.diagnosis_code)
    IN  [diagnosis_id          |-> r.diagnosis_id,
         patient_id            |-> r.patient_id,
         diagnosis_code        |-> std,
         diagnosis_code_raw    |-> r.diagnosis_code,
         diagnosis_description |-> r.diagnosis_description,
         data_quality_issue    |-> DiagnosisQualityIssue(std, r.diagnosis_description)]

(* the rows of df_diagnoses_silver *)
DiagnosesSilverRows(bronzeTable) ==
    [i \in DOMAIN bronzeTable |-> DiagnosisSilverRow(bronzeTable[i])]

(* The cell "2.2 Silver Layer: Clean Diagnoses" *)
SilverDiagnoses ==
    /\ pc = "silver_diagnoses"
    /\ diagnoses_silver' = DiagnosesSilverRows(diagnoses_bronze)
    /\ written' = written \cup {"silver_diagnoses"}
    /\ run_written' = run_written \cup {"silver_diagnoses"}
    /\ pc' = "silver_labs"
    /\ UNCHANGED <<bronze, patients_silver, labs_silver, meds_silver, gold, metrics>>

-----------------------------------------------------------------------------
(* 2.3 Silver layer: clean lab results (outlier detection) *)

RECURSIVE InsertSorted(_, _)
InsertSorted(v, s) ==
    IF s = << >> THEN <<v>>
    ELSE IF v <= Head(s) THEN <<v>> \o s
    ELSE <<Head(s)>> \o InsertSorted(v, Tail(s))

RECURSIVE SortAscending(_)
SortAscending(s) ==
    IF s = << >> THEN << >> ELSE InsertSorted(Head(s), SortAscending(Tail(s)))

(* the non-null test values of the window partition of test_name name *)
PartitionValues(bronzeTable, name) ==
    LET rows == SelectSeq(bronzeTable,
                    LAMBDA r : r.test_name = name /\ ~IsNull(r.test_value))
    IN  [k \in DOMAIN rows |-> Val(rows[k].test_value)]

(* F.percentile_approx(col, num/den) over values: with the default         *)
(* accuracy a partition of fewer than 5000 values is summarised exactly,   *)
(* and the result is the value of rank ceil(num/den * n) among the sorted  *)
(* values; null for a partition with no value.                             *)
PercentileApprox(values, num, den) ==
    IF values = << >> THEN NULL
    ELSE LET n    == Len(values)
             rank == (num * n + den - 1) \div den
         IN  Some(SortAscending(values)[rank])

(* q1, q3, iqr and the two bounds of a partition.  The bounds are kept     *)
(* doubled (lower2 = 2 * lower_bound) so that 1.5 * iqr stays an integer.  *)
LabStats(values) ==
    LET q1 == PercentileApprox(values, 1, 4)
        q3 == PercentileApprox(values, 3, 4)
    IN  IF IsNull(q1) THEN [q1 |-> NULL, q3 |-> NULL, iqr |-> NULL,
                            lower2 |-> NULL, upper2 |-> NULL]
        ELSE LET iqr == Val(q3) - Val(q1)
             IN  [q1 |-> q1, q3 |-> q3, iqr |-> Some(iqr),
                  lower2 |-> Some(2 * Val(q1) - 3 * iqr),
                  upper2 |-> Some(2 * Val(q3) + 3 * iqr)]

(* IsOutlier with <= and >= for < and > *)
IsOutlier_Inclusive(value, stats) ==
    IF /\ ~IsNull(value)
       /\ ~IsNull(stats.lower2)
       /\ \/ 2 * Val(value) <= Val(stats.lower2)
          \/ 2 * Val(value) >= Val(stats.upper2)
    THEN 1 ELSE 0

(* is_outlier: 1 when test_value < lower_bound or test_value > upper_bound; *)
(* a comparison with null is null and gives 0                               *)
IsOutlier(value, stats) ==
    IF /\ ~IsNull(value)
       /\ ~IsNull(stats.lower2)
       /\ \/ 2 * Val(value) < Val(stats.lower2)
          \/ 2 * Val(value) > Val(stats.upper2)
    THEN 1 ELSE 0

(* LabQualityIssue with the negative-value rule before the outlier rule *)
LabQualityIssue_NegativeFirst(is_outlier, value, test_date_parsed) ==
    IF ~IsNull(value) /\ Val(value) < 0 THEN Some("negative_value")
    ELSE IF is_outlier = 1 THEN Some("outlier_detected")
    ELSE IF IsNull(test_date_parsed) THEN Some("invalid_date")
    ELSE NULL

(* the flag of a lab row *)
LabQualityIssue(is_outlier, value, test_date_parsed) ==
    IF is_outlier = 1 THEN Some("outlier_detected")
    ELSE IF ~IsNull(value) /\ Val(value) < 0 THEN Some("negative_value")
    ELSE IF IsNull(test_date_parsed) THEN Some("invalid_date")
    ELSE NULL

(* df_labs_silver: row i of the bronze table *)
LabSilverRow(bronzeTable, i) ==
    LET r       == bronzeTable[i]
        stats   == LabStats(PartitionValues(bronzeTable, r.test_name))
        outlier == IsOutlier(r.test_value, stats)
        parsed  == ToDateIso(r.test_date)
    IN  [lab_id             |-> r.lab_id,
         patient_id         |-> r.patient_id,
         test_name          |-> r.test_name,
         test_value         |-> r.test_value,
         test_date          |-> parsed,
         is_outlier         |-> outlier,
         data_quality_issue |-> LabQualityIssue(outlier, r.test_value, parsed)]

(* the rows of df_labs_silver *)
LabsSilverRows(bronzeTable) ==
    [i \in DOMAIN bronzeTable |-> LabSilverRow(bronzeTable, i)]

(* The cell "2.3 Silver Layer: Clean Lab Results" *)
SilverLabs ==
    /\ pc = "silver_labs"
    /\ labs_silver' = LabsSilverRows(labs_bronze)
    /\ written' = written \cup {"silver_labs"}
    /\ run_written' = run_written \cup {"silver_labs"}
    /\ pc' = "silver_meds"
    /\ UNCHANGED <<bronze, patients_silver, diagnoses_silver, meds_silver, gold, metrics>>

-----------------------------------------------------------------------------
(* 2.4 Silver layer: clean medications (standardization) *)

S_METFORMIN == <<"M","E","T","F","O","R","M","I","N">>

S_LISINOPRIL == <<"L","I","S","I","N","O","P","R","I","L">>

S_ATORVASTATIN == <<"A","T","O","R","V","A","S","T","A","T","I","N">>

S_OMEPRAZOLE == <<"O","M","E","P","R","A","Z","O","L","E">>

S_ALBUTEROL == <<"A","L","B","U","T","E","R","O","L">>

S_ASPIRIN == <<"A","S","P","I","R","I","N">>

S_ASA == <<"A","S","A">>

S_Metformin == <<"M","e","t","f","o","r","m","i","n">>

S_Lisinopril == <<"L","i","s","i","n","o","p","r","i","l">>

S_Atorvastatin == <<"A","t","o","r","v","a","s","t","a","t","i","n">>

S_Omeprazole == <<"O","m","e","p","r","a","z","o","l","e">>

S_Albuterol == <<"A","l","b","u","t","e","r","o","l">>

S_Aspirin == <<"A","s","p","i","r","i","n">>

(* MedicationNameStandard with the Aspirin rule moved to the front *)
MedicationNameStandard_AspirinFirst(o) ==
    IF IsNull(o) THEN o
    ELSE LET u == UpperStr(Val(o))
         IN  IF Contains(u, S_ASPIRIN) \/ Contains(u, S_ASA) THEN Some(S_Aspirin)
             ELSE IF Contains(u, S_METFORMIN) THEN Some(S_Metformin)
             ELSE IF Contains(u, S_LISINOPRIL) THEN Some(S_Lisinopril)
             ELSE IF Contains(u, S_ATORVASTATIN) THEN Some(S_Atorvastatin)
             ELSE IF Contains(u, S_OMEPRAZOLE) THEN Some(S_Omeprazole)
             ELSE IF Contains(u, S_ALBUTEROL) THEN Some(S_Albuterol)
             ELSE o

(* medication_name_standard: the when-chain over F.upper(medication_name); *)
(* rlike on a null name is null, so a null name falls to otherwise(...)     *)
MedicationNameStandard(o) ==
    IF IsNull(o) THEN o
    ELSE LET u == UpperStr(Val(o))
         IN  IF Contains(u, S_METFORMIN) THEN Some(S_Metformin)
             ELSE IF Contains(u, S_LISINOPRIL) THEN Some(S_Lisinopril)
             ELSE IF Contains(u, S_ATORVASTATIN) THEN Some(S_Atorvastatin)
             ELSE IF Contains(u, S_OMEPRAZOLE) THEN Some(S_Omeprazole)
             ELSE IF Contains(u, S_ALBUTEROL) THEN Some(S_Albuterol)
             ELSE IF Contains(u, S_ASPIRIN) \/ Contains(u, S_ASA) THEN Some(S_Aspirin)
             ELSE o

(* the flag of a medication row: null when standard = raw is true; the     *)
(* comparison of two nulls is null, not true                               *)
MedicationQualityIssue(std, raw) ==
    IF ~IsNull(std) /\ ~IsNull(raw) /\ Val(std) = Val(raw) THEN NULL
    ELSE Some("standardized_name")

(* df_meds_silver: one bronze row cleaned *)
MedicationSilverRow(r) ==
    LET std == MedicationNameStandard(r.medication_name)
    IN  [medication_id       |-> r.medication_id,
         patient_id          |-> r.patient_id,
         medication_name     |-> std,
         medication_name_raw |-> r.medication_name,
         start_date          |-> ToDateIso(r.start_date),
         end_date            |-> ToDateIso(r.end_date),
         data_quality_issue  |-> MedicationQualityIssue(std, r.medication_name)]

(* the rows of df_meds_silver *)
MedsSilverRows(bronzeTable) ==
    [i \in DOMAIN bronzeTable |-> MedicationSilverRow(bronzeTable[i])]

(* The cell "2.4 Silver Layer: Clean Medications" *)
SilverMeds ==
    /\ pc = "silver_meds"
    /\ meds_silver' = MedsSilverRows(meds_bronze)
    /\ written' = written \cup {"silver_meds"}
    /\ run_written' = run_written \cup {"silver_meds"}
    /\ pc' = "gold"
    /\ UNCHANGED <<bronze, patients_silver, diagnoses_silver, labs_silver, gold, metrics>>

-----------------------------------------------------------------------------
(* 3. Gold layer: feature engineering *)

S_E11 == <<"E","1","1">>

S_I10 == <<"I","1","0">>

S_I5 == <<"I","5">>

S_J44 == <<"J","4","4">>

S_N18 == <<"N","1","8">>

S_F41 == <<"F","4","1">>

(* 3.1 df_patient_master: one row per row of silver/patients *)
PatientMaster(patients) ==
    [i \in DOMAIN patients |->
        [patient_key               |-> patients[i].patient_key,
         original_patient_id       |-> patients[i].original_patient_id,
         age                       |-> patients[i].age,
         length_of_stay            |-> patients[i].length_of_stay,
         target_readmitted_30_days |-> patients[i].readmitted_30_days]]

(* groupBy("patient_id"): the distinct patient_id values of a table (null  *)
(* is a group of its own), in the order of their first row                 *)
GroupKeys(t) ==
    LET first == SelectSeq([i \in DOMAIN t |-> i],
                     LAMBDA i : \A j \in 1..(i - 1) : t[j].patient_id # t[i].patient_id)
    IN  [k \in DOMAIN first |-> t[first[k]].patient_id]

(* the rows of one group *)
GroupRows(t, key) == SelectSeq(t, LAMBDA r : r.patient_id = key)

(* F.count(col): the number of rows whose col is not null *)
CountNonNull(rows, col) == Len(SelectSeq(rows, LAMBDA r : ~IsNull(r[col])))

RECURSIVE SumSeq(_)
SumSeq(s) == IF s = << >> THEN 0 ELSE Head(s) + SumSeq(Tail(s))

(* F.sum(F.when(col.rlike(p1|p2), 1).otherwise(0)) over the rows of a      *)
(* group: rlike finds the pattern anywhere in the value; on a null value   *)
(* it is null and the row counts 0                                          *)
SumMatches(rows, col, pats) ==
    SumSeq([k \in DOMAIN rows |->
              IF ~IsNull(rows[k][col]) /\ \E p \in pats : Contains(Val(rows[k][col]), p)
              THEN 1 ELSE 0])

(* F.when(col > 0, 1).otherwise(0) *)
Binary(n) == IF n > 0 THEN 1 ELSE 0

(* 3.2 one row of df_diagnosis_features: the group of patient_id key *)
DiagnosisFeatureRow(rows, key) ==
    LET Code == "diagnosis_code"
        has_diabetes      == Binary(SumMatches(rows, Code, {S_E11}))
        has_heart_disease == Binary(SumMatches(rows, Code, {S_I10, S_I5}))
        has_copd          == Binary(SumMatches(rows, Code, {S_J44}))
        has_ckd           == Binary(SumMatches(rows, Code, {S_N18}))
        has_anxiety       == Binary(SumMatches(rows, Code, {S_F41}))
    IN  [patient_id             |-> key,
         num_diagnoses          |-> Some(CountNonNull(rows, "diagnosis_id")),
         has_diabetes           |-> Some(has_diabetes),
         has_heart_disease      |-> Some(has_heart_disease),
         has_copd               |-> Some(has_copd),
         has_ckd                |-> Some(has_ckd),
         has_anxiety            |-> Some(has_anxiety),
         num_chronic_conditions |-> Some(has_diabetes + has_heart_disease
                                         + has_copd + has_ckd)]

(* 3.2 df_diagnosis_features: the unflagged rows grouped by patient_id *)
DiagnosisFeatures(diagnoses) ==
    LET valid == SelectSeq(diagnoses, LAMBDA r : IsNull(r.data_quality_issue))
        keys  == GroupKeys(valid)
    IN  [k \in DOMAIN keys |-> DiagnosisFeatureRow(GroupRows(valid, keys[k]), keys[k])]

(* F.round(x, 2) of x = num/den, in hundredths: half up, away from zero *)
RoundHundredths(num, den) ==
    IF num >= 0 THEN (200 * num + den) \div (2 * den)
    ELSE 0 - ((200 * (0 - num) + den) \div (2 * den))

(* F.round(F.avg(F.when(test_name == name, test_value)), 2), in hundredths: *)
(* the mean of the non-null values of that test; null when there is none    *)
AvgOfTest(rows, name) ==
    LET vals == PartitionValues(rows, Some(name))
    IN  IF vals = << >> THEN NULL
        ELSE Some(RoundHundredths(SumSeq(vals), Len(vals)))

(* 3.3 one row of df_lab_features *)
LabFeatureRow(rows, key) ==
    [patient_id     |-> key,
     avg_hemoglobin |-> AvgOfTest(rows, "Hemoglobin"),
     avg_glucose    |-> AvgOfTest(rows, "Glucose"),
     avg_wbc        |-> AvgOfTest(rows, "WBC"),
     avg_creatinine |-> AvgOfTest(rows, "Creatinine"),
     avg_bun        |-> AvgOfTest(rows, "BUN"),
     num_lab_tests  |-> Some(CountNonNull(rows, "lab_id"))]

(* 3.3 df_lab_features: the unflagged, non-outlier rows by patient_id *)
LabFeatures(labs) ==
    LET valid == SelectSeq(labs,
                     LAMBDA r : IsNull(r.data_quality_issue) /\ r.is_outlier = 0)
        keys  == GroupKeys(valid)
    IN  [k \in DOMAIN keys |-> LabFeatureRow(GroupRows(valid, keys[k]), keys[k])]

(* 3.4 one row of df_med_features *)
MedFeatureRow(rows, key) ==
    LET Name == "medication_name"
    IN  [patient_id       |-> key,
         num_medications  |-> Some(CountNonNull(rows, "medication_id")),
         on_metformin     |-> Some(Binary(SumMatches(rows, Name, {S_Metformin}))),
         on_ace_inhibitor |-> Some(Binary(SumMatches(rows, Name, {S_Lisinopril}))),
         on_statin        |-> Some(Binary(SumMatches(rows, Name, {S_Atorvastatin})))]

(* MedFeatures without the filter on the quality flag *)
MedFeatures_Unfiltered(meds) ==
    LET keys == GroupKeys(meds)
    IN  [k \in DOMAIN keys |-> MedFeatureRow(GroupRows(meds, keys[k]), keys[k])]

(* 3.4 df_med_features: the unflagged rows by patient_id *)
MedFeatures(meds) ==
    LET valid == SelectSeq(meds, LAMBDA r : IsNull(r.data_quality_issue))
        keys  == GroupKeys(valid)
    IN  [k \in DOMAIN keys |-> MedFeatureRow(GroupRows(valid, keys[k]), keys[k])]

(* the feature columns a join adds, patient_id dropped *)
DiagnosisColumns == {"num_diagnoses", "has_diabetes", "has_heart_disease", "has_copd",
                     "has_ckd", "has_anxiety", "num_chronic_conditions"}

LabColumns == {"avg_hemoglobin", "avg_glucose", "avg_wbc", "avg_creatinine",
               "avg_bun", "num_lab_tests"}

MedColumns == {"num_medications", "on_metformin", "on_ace_inhibitor", "on_statin"}

(* JoinedRows of an inner join: a left row without a match is dropped *)
JoinedRows_InnerJoin(l, features, columns) ==
    LET matches == SelectSeq(features,
                       LAMBDA f : /\ ~IsNull(l.original_patient_id)
                                  /\ ~IsNull(f.patient_id)
                                  /\ Val(l.original_patient_id) = Val(f.patient_id))
    IN  [k \in DOMAIN matches |-> l @@ [c \in columns |-> matches[k][c]]]

(* the rows a left join on original_patient_id == patient_id gives for the *)
(* left row l: one per matching feature row, or l with null feature        *)
(* columns when none matches; null never equals anything                   *)
JoinedRows(l, features, columns) ==
    LET matches == SelectSeq(features,
                       LAMBDA f : /\ ~IsNull(l.original_patient_id)
                                  /\ ~IsNull(f.patient_id)
                                  /\ Val(l.original_patient_id) = Val(f.patient_id))
    IN  IF matches = << >> THEN << l @@ [c \in columns |-> NULL] >>
        ELSE [k \in DOMAIN matches |-> l @@ [c \in columns |-> matches[k][c]]]

(* left.join(features, left.original_patient_id == features.patient_id,    *)
(* "left").drop(features.patient_id)                                       *)
RECURSIVE LeftJoin(_, _, _)
LeftJoin(left, features, columns) ==
    IF left = << >> THEN << >>
    ELSE JoinedRows(Head(left), features, columns)
         \o LeftJoin(Tail(left), features, columns)

CountCols == {"num_diagnoses", "num_chronic_conditions", "num_lab_tests", "num_medications"}

BinaryCols == {"has_diabetes", "has_heart_disease", "has_copd", "has_ckd", "has_anxiety",
               "on_metformin", "on_ace_inhibitor", "on_statin"}

NumericCols == {"avg_hemoglobin", "avg_glucose", "avg_wbc", "avg_creatinine", "avg_bun"}

(* FillNulls without the loop over numeric_cols *)
FillNulls_CountsAndBinaryOnly(row) ==
    [c \in DOMAIN row |->
        IF c \in CountCols \cup BinaryCols THEN Coalesce(row[c], 0) ELSE row[c]]

(* the three coalesce loops on one joined row: 0 for the count and binary  *)
(* columns, 0.0 for the averaged columns                                   *)
FillNulls(row) ==
    [c \in DOMAIN row |->
        IF c \in CountCols \cup BinaryCols \cup NumericCols
        THEN Coalesce(row[c], 0) ELSE row[c]]

(* 3.5 df_gold: the three left joins, the null fill, the final columns *)
GoldRows(patients, diagnoses, labs, meds) ==
    LET joined == LeftJoin(LeftJoin(LeftJoin(PatientMaster(patients),
                                             DiagnosisFeatures(diagnoses), DiagnosisColumns),
                                    LabFeatures(labs), LabColumns),
                           MedFeatures(meds), MedColumns)
    IN  [i \in DOMAIN joined |-> FillNulls(joined[i])]

(* The cells 3.1 to 3.5: read the four silver tables, build the features,  *)
(* overwrite gold/patient_readmission_features.                            *)
Gold ==
    /\ pc = "gold"
    /\ gold' = GoldRows(patients_silver, diagnoses_silver, labs_silver, meds_silver)
    /\ written' = written \cup {"gold"}
    /\ run_written' = run_written \cup {"gold"}
    /\ pc' = "metrics"
    /\ UNCHANGED <<bronze, patients_silver, diagnoses_silver, labs_silver, meds_silver,
                   metrics>>

-----------------------------------------------------------------------------
(* 4. Data quality metrics *)

(* MetricsData with patients_unique counted over original_patient_id *)
MetricsData_UniqueByPatientId(patients, diagnoses, labs, meds) ==
    [patients_total      |-> Len(patients),
     patients_unique     |-> Cardinality({patients[i].original_patient_id :
                                             i \in DOMAIN patients}),
     patients_duplicates |-> Len(SelectSeq(patients, LAMBDA r : r.is_duplicate = 1)),
     diagnoses_total     |-> Len(diagnoses),
     labs_total          |-> Len(labs),
     labs_outliers       |-> Len(SelectSeq(labs, LAMBDA r : r.is_outlier = 1)),
     medications_total   |-> Len(meds)]

(* metrics_data *)
MetricsData(patients, diagnoses, labs, meds) ==
    [patients_total      |-> Len(patients),
     patients_unique     |-> Cardinality({patients[i].patient_key : i \in DOMAIN patients}),
     patients_duplicates |-> Len(SelectSeq(patients, LAMBDA r : r.is_duplicate = 1)),
     diagnoses_total     |-> Len(diagnoses),
     labs_total          |-> Len(labs),
     labs_outliers       |-> Len(SelectSeq(labs, LAMBDA r : r.is_outlier = 1)),
     medications_total   |-> Len(meds)]

(* The cells 4.1 and 4.2: read the silver tables, overwrite                *)
(* gold/data_quality_metrics.                                              *)
Metrics ==
    /\ pc = "metrics"
    /\ metrics' = Some(MetricsData(patients_silver, diagnoses_silver, labs_silver, meds_silver))
    /\ written' = written \cup {"metrics"}
    /\ run_written' = run_written \cup {"metrics"}
    /\ pc' = "done"
    /\ UNCHANGED <<bronze, patients_silver, diagnoses_silver, labs_silver, meds_silver,
                   gold>>

(* The notebook is run again on the same bronze snapshot: every write is   *)
(* mode("overwrite"), so the tables of the earlier run stay in place until *)
(* the cell that rewrites them.                                            *)
Rerun ==
    /\ pc = "done"
    /\ pc' = "silver_patients"
    /\ run_written' = {}
    /\ UNCHANGED <<bronze, patients_silver, diagnoses_silver, labs_silver, meds_silver,
                   gold, metrics, written>>

Next ==
    \/ SilverPatients
    \/ SilverDiagnoses
    \/ SilverLabs
    \/ SilverMeds
    \/ Gold
    \/ Metrics
    \/ Rerun

(* Fail with a transaction around the run: the tables the failed run wrote *)
(* are rolled back to empty                                                *)
Fail_Rollback ==
    /\ pc \in {"silver_patients", "silver_diagnoses", "silver_labs", "silver_meds",
               "gold", "metrics"}
    /\ pc' = "failed"
    /\ patients_silver' = << >>
    /\ diagnoses_silver' = << >>
    /\ labs_silver' = << >>
    /\ meds_silver' = << >>
    /\ run_written' = {}
    /\ UNCHANGED <<bronze, gold, metrics, written>>

(* A cell raises (a read, a transformation or a write fails) and the run   *)
(* stops there.  There is no try/except and no transaction around the      *)
(* cells: each write is its own Delta commit, so the tables written by the *)
(* cells that ran before stay as they are, and the table of the failing    *)
(* cell is not written.                                                    *)
Fail ==
    /\ pc \in {"silver_patients", "silver_diagnoses", "silver_labs", "silver_meds",
               "gold", "metrics"}
    /\ pc' = "failed"
    /\ UNCHANGED <<bronze, patients_silver, diagnoses_silver, labs_silver, meds_silver,
                   gold, metrics, written, run_written>>

(* The notebook is started again after a failed run *)
Restart ==
    /\ pc = "failed"
    /\ pc' = "silver_patients"
    /\ run_written' = {}
    /\ UNCHANGED <<bronze, patients_silver, diagnoses_silver, labs_silver, meds_silver,
                   gold, metrics, written>>

(* the runs of the notebook, failing runs included *)
NextWithFailures ==
    \/ Next
    \/ Fail
    \/ Restart

-----------------------------------------------------------------------------
(* The input snapshots.  Spark tables are bags of rows, so one order of    *)
(* each bag is enough: a table is drawn as a non-decreasing sequence of    *)
(* indexes into a list of sample rows.                                     *)

(* the non-decreasing sequences of length n over lo..hi *)
RECURSIVE NonDecreasing(_, _, _)
NonDecreasing(n, lo, hi) ==
    IF n = 0 THEN {<< >>}
    ELSE UNION {{<<k>> \o s : s \in NonDecreasing(n - 1, k, hi)} : k \in lo..hi}

(* the non-decreasing sequences of length at most n over lo..hi *)
UpTo(n, lo, hi) == UNION {NonDecreasing(m, lo, hi) : m \in 0..n}

S_Thomas == <<"T","h","o","m","a","s">>

S_thomas == <<"t","h","o","m","a","s">>

S_James == <<"J","a","m","e","s">>

S_Smith == <<"S","m","i","t","h">>

S_01_02_1980_slash == <<"0","1","/","0","2","/","1","9","8","0">>

S_1980_01_02 == <<"1","9","8","0","-","0","1","-","0","2">>

S_13_01_1980_slash == <<"1","3","/","0","1","/","1","9","8","0">>

S_2023_03_01 == <<"2","0","2","3","-","0","3","-","0","1">>

S_2023_03_05 == <<"2","0","2","3","-","0","3","-","0","5">>

S_03_01_2023_slash == <<"0","3","/","0","1","/","2","0","2","3">>

(* one bronze patient row *)
PatientRow(id, first, last, dob, age, los, readmitted) ==
    [patient_id         |-> id,
     first_name         |-> first,
     last_name          |-> last,
     date_of_birth      |-> dob,
     age                |-> age,
     admission_date     |-> Some(S_2023_03_01),
     discharge_date     |-> Some(S_2023_03_05),
     length_of_stay     |-> los,
     readmitted_30_days |-> readmitted]

(* an identifier with a date-of-birth text: the two accepted formats of   *)
(* one date under different identifiers, a missing identifier, a text     *)
(* that is no date (month 13)                                             *)
IdAndDob == << <<Some(1), Some(S_01_02_1980_slash)>>,
               <<Some(2), Some(S_1980_01_02)>>,
               <<NULL, Some(S_1980_01_02)>>,
               <<Some(1), Some(S_13_01_1980_slash)>> >>

FirstNames == <<Some(S_Thomas), Some(S_thomas), NULL>>

LastNames == <<Some(S_Thomas), NULL>>

NumPatientKinds == Len(IdAndDob) * Len(FirstNames) * Len(LastNames)

(* sample patient row k, 1 <= k <= NumPatientKinds: every combination of   *)
(* an identifier and date of birth, a first name and a last name           *)
PatientKind(k) ==
    LET a == k - 1
        b == a \div Len(IdAndDob)
        c == b \div Len(FirstNames)
        e == IdAndDob[(a % Len(IdAndDob)) + 1]
    IN  PatientRow(e[1],
                   FirstNames[(b % Len(FirstNames)) + 1],
                   LastNames[(c % Len(LastNames)) + 1],
                   e[2], Some(43), Some(4), Some(0))

MaxPatients == 2

PatientTables ==
    {[i \in DOMAIN ks |-> PatientKind(ks[i])] : ks \in UpTo(MaxPatients, 1, NumPatientKinds)}

S_E11_dot_9 == <<"E","1","1",".","9">>

S_e11_dot_9 == <<"e","1","1",".","9">>

S_E11_dash_9 == <<"E","1","1","-","9">>

S_E119 == <<"E","1","1","9">>

S_j44_dot_9 == <<"j","4","4",".","9">>

S__dash__dot_ == <<"-",".">>

S_metformin == <<"m","e","t","f","o","r","m","i","n">>

S_Metformine == <<"M","e","t","f","o","r","m","i","n","e">>

S_Lisinoprel == <<"L","i","s","i","n","o","p","r","e","l">>

S_Atorvastine == <<"A","t","o","r","v","a","s","t","i","n","e">>

S_Omeprazol == <<"O","m","e","p","r","a","z","o","l">>

S_Albuterol_Inhaler == <<"A","l","b","u","t","e","r","o","l"," ","I","n","h","a","l","e","r">>

S_aspirin == <<"a","s","p","i","r","i","n">>

S_Vitamin_D == <<"V","i","t","a","m","i","n"," ","D">>

S_Rasagiline == <<"R","a","s","a","g","i","l","i","n","e">>

S_ASA_Metformin == <<"A","S","A"," ","M","e","t","f","o","r","m","i","n">>

(* one bronze diagnosis row *)
DiagnosisRow(id, patient, code, description) ==
    [diagnosis_id          |-> id,
     patient_id            |-> patient,
     diagnosis_code        |-> code,
     diagnosis_description |-> description]

DiagnosisCodes == <<Some(S_E11_dot_9), Some(S_e11_dot_9), Some(S_E11_dash_9), Some(S_E119),
                    Some(S_I10), Some(S_j44_dot_9), Some(S__dash__dot_), Some(<< >>), NULL>>

Descriptions == <<Some("Type 2 diabetes mellitus without complications"), NULL>>

NumDiagnosisKinds == Len(DiagnosisCodes) * Len(Descriptions)

(* sample diagnosis k of patient 1: every code with and without a description *)
DiagnosisKind(k) ==
    LET a == k - 1
    IN  [code        |-> DiagnosisCodes[(a % Len(DiagnosisCodes)) + 1],
         description |-> Descriptions[((a \div Len(DiagnosisCodes)) % Len(Descriptions)) + 1]]

MaxDiagnoses == 2

DiagnosisTables ==
    {[i \in DOMAIN ks |-> DiagnosisRow(Some(i), Some(1), DiagnosisKind(ks[i]).code,
                                       DiagnosisKind(ks[i]).description)] :
        ks \in UpTo(MaxDiagnoses, 1, NumDiagnosisKinds)}

(* one bronze lab row *)
LabRow(id, patient, name, value, date) ==
    [lab_id     |-> id,
     patient_id |-> patient,
     test_name  |-> name,
     test_value |-> value,
     test_date  |-> date]

(* sample lab results: Glucose and Hemoglobin values, a missing value, a   *)
(* negative value, a test date in the wrong format, both, no test date     *)
LabKinds == << <<"Glucose", Some(10), Some(S_2023_03_01)>>,
               <<"Glucose", Some(100), Some(S_2023_03_01)>>,
               <<"Glucose", Some(25), Some(S_2023_03_01)>>,
               <<"Glucose", Some(0), Some(S_2023_03_01)>>,
               <<"Glucose", Some(-5), Some(S_2023_03_01)>>,
               <<"Glucose", NULL, Some(S_2023_03_01)>>,
               <<"Glucose", Some(10), Some(S_03_01_2023_slash)>>,
               <<"Glucose", Some(-5), Some(S_03_01_2023_slash)>>,
               <<"Glucose", Some(10), NULL>>,
               <<"Hemoglobin", Some(10), Some(S_2023_03_01)>>,
               <<"Hemoglobin", Some(100), Some(S_2023_03_01)>> >>

MaxLabs == 5

LabTables ==
    {[i \in DOMAIN ks |-> LabRow(Some(i), Some(1), Some(LabKinds[ks[i]][1]),
                                 LabKinds[ks[i]][2], LabKinds[ks[i]][3])] :
        ks \in UpTo(MaxLabs, 1, Len(LabKinds))}

(* one bronze medication row *)
MedicationRow(id, patient, name) ==
    [medication_id   |-> id,
     patient_id      |-> patient,
     medication_name |-> name,
     start_date      |-> Some(S_2023_03_01),
     end_date        |-> Some(S_2023_03_05)]

(* sample medication names: the spellings the data generator writes, the   *)
(* variants of medication_mapping, names outside the vocabulary, no name   *)
MedicationNames == <<Some(S_Metformin), Some(S_metformin), Some(S_Metformine),
                     Some(S_METFORMIN), Some(S_Lisinopril), Some(S_Lisinoprel),
                     Some(S_Atorvastatin), Some(S_Atorvastine), Some(S_Omeprazole),
                     Some(S_Omeprazol), Some(S_Albuterol), Some(S_Albuterol_Inhaler),
                     Some(S_Aspirin), Some(S_aspirin), Some(S_ASPIRIN), Some(S_ASA),
                     Some(S_Vitamin_D), Some(S_Rasagiline), Some(S_ASA_Metformin), NULL>>

MaxMeds == 2

MedTables ==
    {[i \in DOMAIN ks |-> MedicationRow(Some(i), Some(1), MedicationNames[ks[i]])] :
        ks \in UpTo(MaxMeds, 1, Len(MedicationNames))}

(* sample patients for the feature tables: three records of one person     *)
(* (two under identifier 1, one under identifier 2) and another person     *)
(* without an identifier                                                   *)
GoldPatientKinds ==
    << PatientRow(Some(1), Some(S_Thomas), Some(S_Smith), Some(S_1980_01_02),
                  Some(43), Some(4), Some(0)),
       PatientRow(Some(1), Some(S_thomas), Some(S_Smith), Some(S_01_02_1980_slash),
                  Some(43), Some(4), Some(1)),
       PatientRow(Some(2), Some(S_Thomas), Some(S_Smith), Some(S_1980_01_02),
                  Some(44), Some(7), Some(1)),
       PatientRow(NULL, Some(S_James), Some(S_Smith), Some(S_1980_01_02),
                  Some(43), Some(4), Some(0)) >>

MaxGoldPatients == 2

GoldPatientTables ==
    {[i \in DOMAIN ks |-> GoldPatientKinds[ks[i]]] :
        ks \in UpTo(MaxGoldPatients, 1, Len(GoldPatientKinds))}

(* sample facts of patients 1 and 2: per domain a clean row of patient 1,  *)
(* a row of patient 1 that gets a quality flag, a clean row of patient 2   *)
GoldDiagnosisKinds == << <<Some(1), Some(S_E11_dot_9), Descriptions[1]>>,
                         <<Some(1), Some(S_I10), NULL>>,
                         <<Some(2), Some(S_j44_dot_9), Descriptions[1]>> >>

GoldLabKinds == << <<Some(1), "Glucose", Some(10)>>,
                   <<Some(1), "Glucose", Some(-5)>>,
                   <<Some(2), "Hemoglobin", Some(13)>> >>

GoldMedKinds == << <<Some(1), Some(S_Metformin)>>,
                   <<Some(1), Some(S_metformin)>>,
                   <<Some(2), Some(S_Vitamin_D)>> >>

MaxGoldFacts == 2

(* the fact rows drawn by ks that fall in lo+1..lo+n, renumbered from 1 *)
FactsIn(ks, lo, n) ==
    LET sel == SelectSeq(ks, LAMBDA k : k > lo /\ k <= lo + n)
    IN  [i \in DOMAIN sel |-> sel[i] - lo]

GoldDiagnosisTable(ks) ==
    LET sel == FactsIn(ks, 0, Len(GoldDiagnosisKinds))
    IN  [i \in DOMAIN sel |-> DiagnosisRow(Some(i), GoldDiagnosisKinds[sel[i]][1],
                                           GoldDiagnosisKinds[sel[i]][2],
                                           GoldDiagnosisKinds[sel[i]][3])]

GoldLabTable(ks) ==
    LET sel == FactsIn(ks, Len(GoldDiagnosisKinds), Len(GoldLabKinds))
    IN  [i \in DOMAIN sel |-> LabRow(Some(i), GoldLabKinds[sel[i]][1],
                                     Some(GoldLabKinds[sel[i]][2]),
                                     GoldLabKinds[sel[i]][3], Some(S_2023_03_01))]

GoldMedTable(ks) ==
    LET sel == FactsIn(ks, Len(GoldDiagnosisKinds) + Len(GoldLabKinds), Len(GoldMedKinds))
    IN  [i \in DOMAIN sel |-> MedicationRow(Some(i), GoldMedKinds[sel[i]][1],
                                            GoldMedKinds[sel[i]][2])]

NumGoldFactKinds == Len(GoldDiagnosisKinds) + Len(GoldLabKinds) + Len(GoldMedKinds)

S_XE11_dot_9 == <<"X","E","1","1",".","9">>

S_I50_dot_9 == <<"I","5","0",".","9">>

S_Z91_dot_I5 == <<"Z","9","1",".","I","5">>

S_Metformin_XR == <<"M","e","t","f","o","r","m","i","n"," ","X","R">>

(* the patients of the feature snapshots: identifiers 1 and 2 and a record *)
(* without an identifier                                                   *)
FeaturePatients == <<GoldPatientKinds[1], GoldPatientKinds[3], GoldPatientKinds[4]>>

(* sample diagnoses of patients 1 and 2: codes that start with a condition *)
(* string, codes that hold one at a later position, a row that gets a flag *)
FeatureDiagnosisKinds == << <<Some(1), Some(S_E11_dot_9), Descriptions[1]>>,
                            <<Some(1), Some(S_XE11_dot_9), Descriptions[1]>>,
                            <<Some(2), Some(S_E11_dot_9), NULL>>,
                            <<Some(2), Some(S_I50_dot_9), Descriptions[1]>>,
                            <<Some(2), Some(S_Z91_dot_I5), Descriptions[1]>>,
                            <<Some(1), Some(S_j44_dot_9), Descriptions[1]>> >>

(* sample medications of patients 1 and 2: standard names, spellings the   *)
(* cleaning changes, a name outside the vocabulary, no name                *)
FeatureMedKinds == << <<Some(1), Some(S_Metformin)>>,
                      <<Some(1), Some(S_metformin)>>,
                      <<Some(1), Some(S_Metformin_XR)>>,
                      <<Some(2), Some(S_Lisinopril)>>,
                      <<Some(2), Some(S_Lisinoprel)>>,
                      <<Some(1), Some(S_Atorvastatin)>>,
                      <<Some(2), Some(S_ATORVASTATIN)>>,
                      <<Some(2), Some(S_Vitamin_D)>>,
                      <<Some(1), NULL>> >>

MaxFeatureFacts == 2

FeatureDiagnosisTables ==
    {[i \in DOMAIN ks |-> DiagnosisRow(Some(i), FeatureDiagnosisKinds[ks[i]][1],
                                       FeatureDiagnosisKinds[ks[i]][2],
                                       FeatureDiagnosisKinds[ks[i]][3])] :
        ks \in UpTo(MaxFeatureFacts, 1, Len(FeatureDiagnosisKinds))}

FeatureMedTables ==
    {[i \in DOMAIN ks |-> MedicationRow(Some(i), FeatureMedKinds[ks[i]][1],
                                        FeatureMedKinds[ks[i]][2])] :
        ks \in UpTo(MaxFeatureFacts, 1, Len(FeatureMedKinds))}

(* one bronze patient row for the quality rules: patient 1, born          *)
(* 1980-01-02                                                              *)
PatientFlagRow(first, last, age, admission, los) ==
    [PatientRow(Some(1), first, last, Some(S_1980_01_02), age, los, Some(0))
        EXCEPT !.admission_date = admission]

FlagFirstNames == <<Some(S_Thomas), NULL>>

FlagLastNames == <<Some(S_Thomas), NULL>>

FlagAges == <<Some(43), Some(150)>>

FlagAdmissions == <<Some(S_2023_03_01), NULL>>

FlagStays == <<Some(4), Some(0)>>

(* every combination of a rule of df_patients_quality matching or not *)
PatientFlagCombinations ==
    Evaluated([k \in 1..32 |->
        LET a == k - 1
        IN  PatientFlagRow(FlagFirstNames[(a % 2) + 1],
                           FlagLastNames[((a \div 2) % 2) + 1],
                           FlagAges[((a \div 4) % 2) + 1],
                           FlagAdmissions[((a \div 8) % 2) + 1],
                           FlagStays[((a \div 16) % 2) + 1])])

(* the edges of the rules: ages -1, 0, 120, 121 and no age; an admission   *)
(* date in the wrong format; stays of -1 and 1 day and no stay             *)
PatientFlagEdges ==
    << PatientFlagRow(Some(S_Thomas), Some(S_Thomas), Some(-1), Some(S_2023_03_01), Some(4)),
       PatientFlagRow(Some(S_Thomas), Some(S_Thomas), Some(0), Some(S_2023_03_01), Some(4)),
       PatientFlagRow(Some(S_Thomas), Some(S_Thomas), Some(120), Some(S_2023_03_01), Some(4)),
       PatientFlagRow(Some(S_Thomas), Some(S_Thomas), Some(121), Some(S_2023_03_01), Some(4)),
       PatientFlagRow(Some(S_Thomas), Some(S_Thomas), NULL, Some(S_2023_03_01), Some(4)),
       PatientFlagRow(Some(S_Thomas), Some(S_Thomas), Some(43), Some(S_03_01_2023_slash), Some(4)),
       PatientFlagRow(Some(S_Thomas), Some(S_Thomas), Some(43), Some(S_2023_03_01), Some(-1)),
       PatientFlagRow(Some(S_Thomas), Some(S_Thomas), Some(43), Some(S_2023_03_01), Some(1)),
       PatientFlagRow(Some(S_Thomas), Some(S_Thomas), Some(43), Some(S_2023_03_01), NULL) >>

PatientFlagKinds == PatientFlagCombinations \o PatientFlagEdges

MaxFlagPatients == 1

PatientFlagTables ==
    {[i \in DOMAIN ks |-> PatientFlagKinds[ks[i]]] :
        ks \in UpTo(MaxFlagPatients, 1, Len(PatientFlagKinds))}

(* nothing has run: no table exists yet *)
InitPipeline ==
    /\ pc = "silver_patients"
    /\ patients_silver = << >>
    /\ diagnoses_silver = << >>
    /\ labs_silver = << >>
    /\ meds_silver = << >>
    /\ gold = << >>
    /\ metrics = NULL
    /\ written = {}
    /\ run_written = {}

(* a snapshot with patients, and at most MaxGoldFacts diagnoses, lab       *)
(* results and medications in all                                          *)
Init ==
    /\ patients_bronze \in GoldPatientTables
    /\ \E ks \in UpTo(MaxGoldFacts, 1, NumGoldFactKinds) :
          /\ diagnoses_bronze = GoldDiagnosisTable(ks)
          /\ labs_bronze = GoldLabTable(ks)
          /\ meds_bronze = GoldMedTable(ks)
    /\ InitPipeline

(* a snapshot of patients only *)
InitPatients ==
    /\ patients_bronze \in PatientTables
    /\ diagnoses_bronze = << >>
    /\ labs_bronze = << >>
    /\ meds_bronze = << >>
    /\ InitPipeline

(* a snapshot of diagnoses only *)
InitDiagnoses ==
    /\ patients_bronze = << >>
    /\ diagnoses_bronze \in DiagnosisTables
    /\ labs_bronze = << >>
    /\ meds_bronze = << >>
    /\ InitPipeline

(* a snapshot of lab results only *)
InitLabs ==
    /\ patients_bronze = << >>
    /\ diagnoses_bronze = << >>
    /\ labs_bronze \in LabTables
    /\ meds_bronze = << >>
    /\ InitPipeline

(* a snapshot of medications only *)
InitMeds ==
    /\ patients_bronze = << >>
    /\ diagnoses_bronze = << >>
    /\ labs_bronze = << >>
    /\ meds_bronze \in MedTables
    /\ InitPipeline

(* a snapshot for the features: three patients, at most MaxFeatureFacts    *)
(* diagnoses and as many medications                                       *)
InitFeatures ==
    /\ patients_bronze = FeaturePatients
    /\ diagnoses_bronze \in FeatureDiagnosisTables
    /\ labs_bronze = << >>
    /\ meds_bronze \in FeatureMedTables
    /\ InitPipeline

(* a snapshot for the failing runs: patients, one diagnosis, one lab       *)
(* result, one medication                                                  *)
InitFailures ==
    /\ patients_bronze \in GoldPatientTables
    /\ diagnoses_bronze = GoldDiagnosisTable(<<1, 4, 7>>)
    /\ labs_bronze = GoldLabTable(<<1, 4, 7>>)
    /\ meds_bronze = GoldMedTable(<<1, 4, 7>>)
    /\ InitPipeline

(* a snapshot of patients for the quality rules *)
InitPatientFlags ==
    /\ patients_bronze \in PatientFlagTables
    /\ diagnoses_bronze = << >>
    /\ labs_bronze = << >>
    /\ meds_bronze = << >>
    /\ InitPipeline

Spec == Init /\ [][Next]_vars

SpecPatientFlags == InitPatientFlags /\ [][Next]_vars

SpecFeatures == InitFeatures /\ [][Next]_vars

SpecFailures == InitFailures /\ [][NextWithFailures]_vars

SpecPatients == InitPatients /\ [][Next]_vars

SpecDiagnoses == InitDiagnoses /\ [][Next]_vars

SpecLabs == InitLabs /\ [][Next]_vars

SpecMeds == InitMeds /\ [][Next]_vars

-----------------------------------------------------------------------------
(* Properties of the identity resolver (checked under SpecPatients) *)

PatientsWritten == "silver_patients" \in written

(* the fingerprints of the bronze patient rows *)
Fingerprints == FingerprintsOf(patients_bronze)

(* the identity triples of the bronze patient rows:                        *)
(* (UPPER(first_name), UPPER(last_name), parsed date_of_birth)             *)
IdentityTriples ==
    Evaluated([i \in DOMAIN patients_bronze |->
        <<Upper(patients_bronze[i].first_name), Upper(patients_bronze[i].last_name),
          ParseDob(patients_bronze[i].date_of_birth)>>])

(* C1: patient_key is the dense rank of the fingerprint over all patient   *)
(* records.  Records with the same identity triple have the same key; the  *)
(* text 01/02/1980 and the text 1980-01-02 are the same date of birth;     *)
(* keys follow the order of the fingerprints; and the keys in use are      *)
(* exactly 1..N for N distinct fingerprints.                               *)
C1_PatientKeyDenseRank ==
    PatientsWritten =>
        LET fp     == Fingerprints
            triple == IdentityTriples
        IN  /\ DOMAIN patients_silver = DOMAIN patients_bronze
            /\ \A i, j \in DOMAIN patients_silver :
                  /\ triple[i] = triple[j]
                        => patients_silver[i].patient_key = patients_silver[j].patient_key
                  /\ ( /\ triple[i][1] = triple[j][1]
                       /\ triple[i][2] = triple[j][2]
                       /\ patients_bronze[i].date_of_birth = Some(S_01_02_1980_slash)
                       /\ patients_bronze[j].date_of_birth = Some(S_1980_01_02) )
                     => patients_silver[i].patient_key = patients_silver[j].patient_key
                  /\ fp[i] = fp[j]
                        <=> patients_silver[i].patient_key = patients_silver[j].patient_key
                  /\ StrLess(fp[i], fp[j])
                        <=> patients_silver[i].patient_key < patients_silver[j].patient_key
            /\ {patients_silver[i].patient_key : i \in DOMAIN patients_silver}
                  = 1..Cardinality(Range(fp))

(* C1 witness: the same person written once with MM/DD/YYYY and once with  *)
(* YYYY-MM-DD, in different letter case, under one patient_key             *)
C1_Witness ==
    /\ PatientsWritten
    /\ \E i, j \in DOMAIN patients_silver :
          /\ patients_bronze[i].date_of_birth = Some(S_01_02_1980_slash)
          /\ patients_bronze[j].date_of_birth = Some(S_1980_01_02)
          /\ patients_bronze[i].first_name = Some(S_Thomas)
          /\ patients_bronze[j].first_name = Some(S_thomas)
          /\ patients_silver[i].patient_key = 1
          /\ patients_silver[j].patient_key = 1

(* a is not after b in ascending order of patient_id, nulls first *)
IdNotAfter(a, b) == IsNull(a) \/ (~IsNull(b) /\ Val(a) <= Val(b))

(* C2: in every fingerprint group exactly one record has is_duplicate = 0, *)
(* its original patient identifier is the minimum of the group (the first  *)
(* in ascending order, where a missing identifier sorts first), and every  *)
(* other record of the group has is_duplicate = 1.                         *)
C2_CanonicalUniqueness ==
    PatientsWritten =>
        LET fp == Fingerprints
        IN  \A i \in DOMAIN patients_silver :
            LET group     == {j \in DOMAIN patients_silver : fp[j] = fp[i]}
                canonical == {j \in group : patients_silver[j].is_duplicate = 0}
            IN  /\ Cardinality(canonical) = 1
                /\ \A c \in canonical : \A j \in group :
                      IdNotAfter(patients_silver[c].original_patient_id,
                                 patients_silver[j].original_patient_id)
                /\ \A j \in group \ canonical : patients_silver[j].is_duplicate = 1

(* C2 witness: a group of two records with identifiers 1 and 2; the record *)
(* with identifier 1 is canonical, the other a duplicate                   *)
C2_Witness ==
    /\ PatientsWritten
    /\ \E i, j \in DOMAIN patients_silver :
          /\ patients_silver[i].patient_key = patients_silver[j].patient_key
          /\ patients_silver[i].original_patient_id = Some(1)
          /\ patients_silver[j].original_patient_id = Some(2)
          /\ patients_silver[i].is_duplicate = 0
          /\ patients_silver[j].is_duplicate = 1

(* C3: two records whose identity triples differ in any field, a null      *)
(* field against a non-null one included, never get the same patient_key.  *)
C3_ExactMatchOnly ==
    PatientsWritten =>
        LET triple == IdentityTriples
        IN  \A i, j \in DOMAIN patients_silver :
                triple[i] # triple[j]
                    => patients_silver[i].patient_key # patients_silver[j].patient_key

(* the rows of a table with their multiplicities *)
RowBag(t) == [r \in Range(t) |-> Cardinality({i \in DOMAIN t : t[i] = r})]

(* C10: a rerun of the patient stage on the same bronze snapshot writes    *)
(* the table the earlier run wrote: every record with the same             *)
(* patient_key, is_duplicate and data_quality_issue.                       *)
C10_RerunReproducesPatients ==
    [][(pc = "silver_patients" /\ PatientsWritten /\ patients_bronze' = patients_bronze)
          => RowBag(patients_silver') = RowBag(patients_silver)]_vars

-----------------------------------------------------------------------------
(* Properties of the cleaned tables and the feature table *)

(* C4: no cleaning step removes or adds records: each cleaned table holds  *)
(* one record per input record, in the four domains.                       *)
C4_RecordCountPreserved ==
    /\ PatientsWritten =>
          /\ Len(patients_silver) = Len(patients_bronze)
          /\ \A i \in DOMAIN patients_bronze :
                patients_silver[i].original_patient_id = patients_bronze[i].patient_id
    /\ "silver_diagnoses" \in written =>
          /\ Len(diagnoses_silver) = Len(diagnoses_bronze)
          /\ \A i \in DOMAIN diagnoses_bronze :
                diagnoses_silver[i].diagnosis_id = diagnoses_bronze[i].diagnosis_id
    /\ "silver_labs" \in written =>
          /\ Len(labs_silver) = Len(labs_bronze)
          /\ \A i \in DOMAIN labs_bronze : labs_silver[i].lab_id = labs_bronze[i].lab_id
    /\ "silver_meds" \in written =>
          /\ Len(meds_silver) = Len(meds_bronze)
          /\ \A i \in DOMAIN meds_bronze :
                meds_silver[i].medication_id = meds_bronze[i].medication_id

(* C4 witness: the four cleaned tables are written; two patient records,   *)
(* one marked a duplicate; a flagged lab result and a medication with a    *)
(* canonical name other than its raw name are both still there             *)
C4_Witness ==
    /\ {"silver_patients", "silver_diagnoses", "silver_labs", "silver_meds"} \subseteq written
    /\ Len(patients_silver) = 2
    /\ \E i \in DOMAIN patients_silver : patients_silver[i].is_duplicate = 1
    /\ \E i \in DOMAIN labs_silver : labs_silver[i].data_quality_issue = Some("negative_value")
    /\ \E i \in DOMAIN meds_silver :
          /\ meds_silver[i].data_quality_issue = Some("standardized_name")
          /\ meds_silver[i].medication_name # meds_silver[i].medication_name_raw

(* the rows of labs_bronze with the test name of row i and a value *)
SameTest(i) ==
    {j \in DOMAIN labs_bronze :
        /\ labs_bronze[j].test_name = labs_bronze[i].test_name
        /\ ~IsNull(labs_bronze[j].test_value)}

LabValue(j) == Val(labs_bronze[j].test_value)

(* the num/den percentile of the values of the rows js: the least value v  *)
(* such that at least num/den of the values are <= v                       *)
PercentileOf(js, num, den) ==
    CHOOSE v \in {LabValue(j) : j \in js} :
        /\ Cardinality({j \in js : LabValue(j) <= v}) * den >= num * Cardinality(js)
        /\ Cardinality({j \in js : LabValue(j) < v}) * den < num * Cardinality(js)

(* C5: a lab record is an outlier iff its value lies outside               *)
(* [q1 - 1.5*iqr, q3 + 1.5*iqr], q1 and q3 the 25th and 75th percentile of *)
(* the values of its test name, whatever the size of the group; in a group *)
(* with the values 10, 10, 10, 10, 100 exactly the value 100 is flagged.   *)
C5_OutlierIffOutsideBounds ==
    "silver_labs" \in written =>
        /\ DOMAIN labs_silver = DOMAIN labs_bronze
        /\ \A i \in DOMAIN labs_silver :
              LET js == SameTest(i)
                  q1 == PercentileOf(js, 1, 4)
                  q3 == PercentileOf(js, 3, 4)
                  v  == LabValue(i)
              IN  /\ labs_silver[i].is_outlier \in {0, 1}
                  /\ labs_silver[i].is_outlier = 1 <=>
                        /\ ~IsNull(labs_bronze[i].test_value)
                        /\ \/ 2 * v < 2 * q1 - 3 * (q3 - q1)
                           \/ 2 * v > 2 * q3 + 3 * (q3 - q1)
                  /\ ( /\ Cardinality(js) = 5
                       /\ Cardinality({j \in js : LabValue(j) = 10}) = 4
                       /\ Cardinality({j \in js : LabValue(j) = 100}) = 1
                       /\ i \in js )
                     => (labs_silver[i].is_outlier = 1 <=> v = 100)

(* C5 witness: the Glucose values are 10, 10, 10, 10, 100; the 100 is      *)
(* flagged and a 10 is not                                                 *)
C5_Witness ==
    /\ "silver_labs" \in written
    /\ Len(labs_silver) = 5
    /\ \A i \in DOMAIN labs_silver : labs_silver[i].test_name = Some("Glucose")
    /\ Cardinality({i \in DOMAIN labs_silver : labs_silver[i].test_value = Some(10)}) = 4
    /\ \E i \in DOMAIN labs_silver :
          labs_silver[i].test_value = Some(100) /\ labs_silver[i].is_outlier = 1
    /\ \E i \in DOMAIN labs_silver :
          labs_silver[i].test_value = Some(10) /\ labs_silver[i].is_outlier = 0

(* two codes differ only in letter case or in hyphens and periods *)
SameCodeUpToCaseAndPunctuation(a, b) ==
    LET Letters(s) == SelectSeq(s, LAMBDA c : c # "-" /\ c # ".")
    IN  /\ Len(Letters(a)) = Len(Letters(b))
        /\ \A k \in DOMAIN Letters(a) : UpperChar(Letters(a)[k]) = UpperChar(Letters(b)[k])

(* C6: canonicalizing a canonical diagnosis code changes nothing; codes    *)
(* that differ only in case or in hyphens and periods get the same         *)
(* canonical code; E11.9, e11.9 and E11-9 get E119.                        *)
C6_DiagnosisCodeIdempotent ==
    "silver_diagnoses" \in written =>
        /\ DOMAIN diagnoses_silver = DOMAIN diagnoses_bronze
        /\ \A i \in DOMAIN diagnoses_silver :
              /\ DiagnosisCodeStandard(diagnoses_silver[i].diagnosis_code)
                    = diagnoses_silver[i].diagnosis_code
              /\ diagnoses_bronze[i].diagnosis_code
                    \in {Some(S_E11_dot_9), Some(S_e11_dot_9), Some(S_E11_dash_9)}
                    => diagnoses_silver[i].diagnosis_code = Some(S_E119)
        /\ \A i, j \in DOMAIN diagnoses_silver :
              ( /\ ~IsNull(diagnoses_bronze[i].diagnosis_code)
                /\ ~IsNull(diagnoses_bronze[j].diagnosis_code)
                /\ SameCodeUpToCaseAndPunctuation(Val(diagnoses_bronze[i].diagnosis_code),
                                                  Val(diagnoses_bronze[j].diagnosis_code)) )
              => diagnoses_silver[i].diagnosis_code = diagnoses_silver[j].diagnosis_code

(* C6 witness: e11.9 and E11-9 are both cleaned to E119 *)
C6_Witness ==
    /\ "silver_diagnoses" \in written
    /\ \E i, j \in DOMAIN diagnoses_silver :
          /\ diagnoses_silver[i].diagnosis_code_raw = Some(S_e11_dot_9)
          /\ diagnoses_silver[j].diagnosis_code_raw = Some(S_E11_dash_9)
          /\ diagnoses_silver[i].diagnosis_code = Some(S_E119)
          /\ diagnoses_silver[j].diagnosis_code = Some(S_E119)

(* the rules of the medication vocabulary in their order: the patterns of  *)
(* a rule and the name it gives                                            *)
MedicationRules == << <<{S_METFORMIN}, S_Metformin>>,
                      <<{S_LISINOPRIL}, S_Lisinopril>>,
                      <<{S_ATORVASTATIN}, S_Atorvastatin>>,
                      <<{S_OMEPRAZOLE}, S_Omeprazole>>,
                      <<{S_ALBUTEROL}, S_Albuterol>>,
                      <<{S_ASPIRIN, S_ASA}, S_Aspirin>> >>

(* the rules with a pattern that occurs in name, letter case ignored *)
RulesMatching(name) ==
    {k \in DOMAIN MedicationRules :
        \E pat \in MedicationRules[k][1] :
            \E at \in 1..Len(name) :
                /\ at + Len(pat) - 1 <= Len(name)
                /\ \A d \in 1..Len(pat) : UpperChar(name[at + d - 1]) = pat[d]}

(* C7: the canonical medication name is the output of the first rule whose *)
(* pattern occurs in the raw name, case-insensitively; a name that matches *)
(* no rule passes through unchanged and unflagged; ASA, Aspirin and        *)
(* aspirin give Aspirin, Vitamin D stays Vitamin D.                        *)
C7_FirstMatchingRule ==
    "silver_meds" \in written =>
        /\ DOMAIN meds_silver = DOMAIN meds_bronze
        /\ \A i \in DOMAIN meds_silver :
              LET raw == meds_bronze[i].medication_name
                  out == meds_silver[i]
              IN  ~IsNull(raw) =>
                    LET rules == RulesMatching(Val(raw))
                    IN  /\ rules # {} =>
                              \E k \in rules :
                                  /\ \A m \in rules : k <= m
                                  /\ out.medication_name = Some(MedicationRules[k][2])
                        /\ rules = {} =>
                              /\ out.medication_name = raw
                              /\ IsNull(out.data_quality_issue)
                        /\ raw \in {Some(S_ASA), Some(S_Aspirin), Some(S_aspirin)}
                              => out.medication_name = Some(S_Aspirin)
                        /\ raw = Some(S_Vitamin_D) =>
                              /\ out.medication_name = Some(S_Vitamin_D)
                              /\ IsNull(out.data_quality_issue)

(* C7 witness: ASA cleaned to Aspirin, Vitamin D left as it is, unflagged  *)
C7_Witness ==
    /\ "silver_meds" \in written
    /\ \E i, j \in DOMAIN meds_silver :
          /\ meds_silver[i].medication_name_raw = Some(S_ASA)
          /\ meds_silver[i].medication_name = Some(S_Aspirin)
          /\ meds_silver[j].medication_name_raw = Some(S_Vitamin_D)
          /\ meds_silver[j].medication_name = Some(S_Vitamin_D)
          /\ IsNull(meds_silver[j].data_quality_issue)

(* some row of the cleaned table t belongs to the patient identifier id *)
HasRecords(t, id) ==
    /\ ~IsNull(id)
    /\ \E k \in DOMAIN t : ~IsNull(t[k].patient_id) /\ Val(t[k].patient_id) = Val(id)

(* C8: in every row of the feature table every count, every indicator and  *)
(* every average is non-null; a patient without diagnosis, lab or          *)
(* medication records has 0 in the counts and indicators and 0.0 in the    *)
(* averages of that domain.                                                *)
C8_NullFill ==
    "gold" \in written =>
        \A k \in DOMAIN gold :
            LET g == gold[k]
            IN  /\ \A c \in {"num_diagnoses", "num_chronic_conditions", "num_lab_tests",
                            "num_medications", "has_diabetes", "has_heart_disease",
                            "has_copd", "has_ckd", "has_anxiety", "on_metformin",
                            "on_ace_inhibitor", "on_statin", "avg_hemoglobin",
                            "avg_glucose", "avg_wbc", "avg_creatinine", "avg_bun"} :
                      c \in DOMAIN g /\ ~IsNull(g[c])
                /\ ~HasRecords(diagnoses_silver, g.original_patient_id) =>
                      \A c \in {"num_diagnoses", "num_chronic_conditions", "has_diabetes",
                                "has_heart_disease", "has_copd", "has_ckd", "has_anxiety"} :
                          g[c] = Some(0)
                /\ ~HasRecords(labs_silver, g.original_patient_id) =>
                      \A c \in {"num_lab_tests", "avg_hemoglobin", "avg_glucose", "avg_wbc",
                                "avg_creatinine", "avg_bun"} :
                          g[c] = Some(0)
                /\ ~HasRecords(meds_silver, g.original_patient_id) =>
                      \A c \in {"num_medications", "on_metformin", "on_ace_inhibitor",
                                "on_statin"} :
                          g[c] = Some(0)

(* C8 witness: patient 2 has no diagnosis and no lab record and gets zeros *)
(* while patient 1 has a diagnosis of diabetes                             *)
C8_Witness ==
    /\ "gold" \in written
    /\ \E i, j \in DOMAIN gold :
          /\ gold[i].original_patient_id = Some(2)
          /\ ~HasRecords(diagnoses_silver, Some(2))
          /\ ~HasRecords(labs_silver, Some(2))
          /\ gold[i].num_diagnoses = Some(0)
          /\ gold[i].has_diabetes = Some(0)
          /\ gold[i].avg_glucose = Some(0)
          /\ gold[j].original_patient_id = Some(1)
          /\ gold[j].num_diagnoses = Some(1)
          /\ gold[j].has_diabetes = Some(1)

(* C9: the feature table has one row per cleaned patient record, each with *)
(* the record's patient_key, original_patient_id and readmission label;    *)
(* records that share a patient_key keep their own rows.                   *)
C9_OneRowPerPatientRecord ==
    "gold" \in written =>
        /\ Len(gold) = Len(patients_silver)
        /\ \A i \in DOMAIN patients_silver :
              /\ gold[i].patient_key = patients_silver[i].patient_key
              /\ gold[i].original_patient_id = patients_silver[i].original_patient_id
              /\ gold[i].target_readmitted_30_days = patients_silver[i].readmitted_30_days

(* C9 witness: two records of one patient_key, one of them a duplicate,    *)
(* under different identifiers; both have a row, the row of identifier 1   *)
(* with its diagnosis joined and the row of identifier 2 without one       *)
C9_Witness ==
    /\ "gold" \in written
    /\ Len(gold) = 2
    /\ gold[1].patient_key = gold[2].patient_key
    /\ \E i \in DOMAIN patients_silver : patients_silver[i].is_duplicate = 1
    /\ \E i, j \in DOMAIN gold :
          /\ gold[i].original_patient_id = Some(1)
          /\ gold[i].num_diagnoses = Some(1)
          /\ gold[j].original_patient_id = Some(2)
          /\ gold[j].num_diagnoses = Some(0)

-----------------------------------------------------------------------------
(* Properties of the quality flags *)

(* the text o is there and the date d parsed from it is null *)
FailsToParse(o, d) == ~IsNull(o) /\ IsNull(d)

(* C11: every cleaned record with a date text that fails to parse          *)
(* (patient date_of_birth, admission_date, discharge_date; lab test_date;  *)
(* medication start_date, end_date) has that date null and a non-null      *)
(* data_quality_issue.                                                     *)
C11_DateParseFailureFlagged ==
    /\ PatientsWritten =>
          \A i \in DOMAIN patients_silver :
              LET b == patients_bronze[i]
                  c == patients_silver[i]
              IN  ( \/ FailsToParse(b.date_of_birth, c.date_of_birth)
                    \/ FailsToParse(b.admission_date, c.admission_date)
                    \/ FailsToParse(b.discharge_date, c.discharge_date) )
                  => ~IsNull(c.data_quality_issue)
    /\ "silver_labs" \in written =>
          \A i \in DOMAIN labs_silver :
              FailsToParse(labs_bronze[i].test_date, labs_silver[i].test_date)
                  => ~IsNull(labs_silver[i].data_quality_issue)
    /\ "silver_meds" \in written =>
          \A i \in DOMAIN meds_silver :
              ( \/ FailsToParse(meds_bronze[i].start_date, meds_silver[i].start_date)
                \/ FailsToParse(meds_bronze[i].end_date, meds_silver[i].end_date) )
              => ~IsNull(meds_silver[i].data_quality_issue)

(* the rules of the patient flag in their order, and which of them the     *)
(* bronze row b with cleaned row c matches                                 *)
PatientRuleLabels ==
    <<"null_first_name", "null_last_name", "invalid_age", "null_admission_date",
      "invalid_los">>

PatientRulesMatching(b, c) ==
    {k \in DOMAIN PatientRuleLabels :
        \/ k = 1 /\ IsNull(b.first_name)
        \/ k = 2 /\ IsNull(b.last_name)
        \/ k = 3 /\ ~IsNull(b.age) /\ (Val(b.age) < 0 \/ Val(b.age) > 120)
        \/ k = 4 /\ IsNull(c.admission_date)
        \/ k = 5 /\ ~IsNull(b.length_of_stay) /\ Val(b.length_of_stay) <= 0}

(* C12: a patient record's flag is the label of the first rule it matches  *)
(* in the order null first name, null last name, age < 0 or age > 120,     *)
(* null admission date, length of stay <= 0, and is absent when it matches *)
(* none; null last name with age 150 gives null_last_name; ages 0 and 120  *)
(* are not invalid.                                                        *)
C12_PatientFlagFirstMatch ==
    PatientsWritten =>
        /\ DOMAIN patients_silver = DOMAIN patients_bronze
        /\ \A i \in DOMAIN patients_silver :
              LET b     == patients_bronze[i]
                  c     == patients_silver[i]
                  rules == PatientRulesMatching(b, c)
              IN  /\ rules = {} => IsNull(c.data_quality_issue)
                  /\ rules # {} =>
                        \E k \in rules :
                            /\ \A m \in rules : k <= m
                            /\ c.data_quality_issue = Some(PatientRuleLabels[k])
                  /\ ( /\ ~IsNull(b.first_name) /\ IsNull(b.last_name)
                       /\ b.age = Some(150) )
                     => c.data_quality_issue = Some("null_last_name")
                  /\ b.age \in {Some(0), Some(120)}
                        => c.data_quality_issue # Some("invalid_age")

(* C12 witness: a record with a first name, no last name and age 150 is   *)
(* flagged null_last_name                                                  *)
C12_Witness ==
    /\ PatientsWritten
    /\ \E i \in DOMAIN patients_silver :
          /\ ~IsNull(patients_bronze[i].first_name)
          /\ IsNull(patients_bronze[i].last_name)
          /\ patients_bronze[i].age = Some(150)
          /\ patients_silver[i].data_quality_issue = Some("null_last_name")

(* C13: a lab record's flag follows the chain outlier, negative value,     *)
(* unparseable test date, none: it is outlier_detected iff is_outlier = 1  *)
(* (whatever the value and the date), otherwise negative_value if the      *)
(* value is below 0, otherwise invalid_date if the cleaned test date is    *)
(* null, otherwise absent.                                                 *)
C13_LabFlagChain ==
    "silver_labs" \in written =>
        /\ DOMAIN labs_silver = DOMAIN labs_bronze
        /\ \A i \in DOMAIN labs_silver :
              LET b        == labs_bronze[i]
                  c        == labs_silver[i]
                  negative == ~IsNull(b.test_value) /\ Val(b.test_value) < 0
              IN  /\ c.data_quality_issue = Some("outlier_detected") <=> c.is_outlier = 1
                  /\ (c.is_outlier # 1 /\ negative)
                        => c.data_quality_issue = Some("negative_value")
                  /\ (c.is_outlier # 1 /\ ~negative /\ IsNull(c.test_date))
                        => c.data_quality_issue = Some("invalid_date")
                  /\ (c.is_outlier # 1 /\ ~negative /\ ~IsNull(c.test_date))
                        => IsNull(c.data_quality_issue)
                  /\ IsNull(c.test_date) <=> b.test_date # Some(S_2023_03_01)

(* C13 witness: an outlier with a negative value and a test date that does *)
(* not parse is flagged outlier_detected, beside a record of the same test *)
(* that is no outlier and is flagged invalid_date                          *)
C13_Witness ==
    /\ "silver_labs" \in written
    /\ \E i \in DOMAIN labs_silver :
          /\ labs_silver[i].test_value = Some(-5)
          /\ labs_bronze[i].test_date = Some(S_03_01_2023_slash)
          /\ labs_silver[i].is_outlier = 1
          /\ labs_silver[i].data_quality_issue = Some("outlier_detected")
    /\ \E i \in DOMAIN labs_silver :
          /\ labs_silver[i].test_value = Some(10)
          /\ labs_bronze[i].test_date = Some(S_03_01_2023_slash)
          /\ labs_silver[i].is_outlier = 0
          /\ labs_silver[i].data_quality_issue = Some("invalid_date")

(* C14: a medication record carries the flag standardized_name iff its     *)
(* canonical name differs from its raw name; a record with a null name     *)
(* passes through with a null name and no flag.                            *)
C14_StandardizedNameIffChanged ==
    "silver_meds" \in written =>
        /\ DOMAIN meds_silver = DOMAIN meds_bronze
        /\ \A i \in DOMAIN meds_silver :
              LET raw       == meds_bronze[i].medication_name
                  canonical == meds_silver[i].medication_name
                  flag      == meds_silver[i].data_quality_issue
              IN  /\ flag = Some("standardized_name") <=> canonical # raw
                  /\ canonical = raw => IsNull(flag)
                  /\ IsNull(raw) => IsNull(canonical) /\ IsNull(flag)

-----------------------------------------------------------------------------
(* Properties of the medication names *)

(* medication_mapping: the dictionary of standard names and their listed   *)
(* variants; the cell defines it and never reads it                        *)
medication_mapping ==
    << [key |-> S_METFORMIN,    variants |-> {S_METFORMIN, UpperStr(S_Metformine)}],
       [key |-> S_LISINOPRIL,   variants |-> {S_LISINOPRIL, UpperStr(S_Lisinoprel)}],
       [key |-> S_ATORVASTATIN, variants |-> {S_ATORVASTATIN, UpperStr(S_Atorvastine)}],
       [key |-> S_OMEPRAZOLE,   variants |-> {S_OMEPRAZOLE, UpperStr(S_Omeprazol)}],
       [key |-> S_ALBUTEROL,    variants |-> {S_ALBUTEROL, UpperStr(S_Albuterol_Inhaler)}],
       [key |-> S_ASPIRIN,      variants |-> {S_ASPIRIN, S_ASA}] >>

(* the standard names the cleaning writes *)
StandardNames ==
    {S_Metformin, S_Lisinopril, S_Atorvastatin, S_Omeprazole, S_Albuterol, S_Aspirin}

(* C18: every variant listed in medication_mapping, in any letter case, is *)
(* canonicalized to the standard name of the entry it is listed under.     *)
C18_ListedVariantsStandardized ==
    "silver_meds" \in written =>
        \A i \in DOMAIN meds_silver :
            \A k \in DOMAIN medication_mapping :
                LET raw       == meds_bronze[i].medication_name
                    canonical == meds_silver[i].medication_name
                IN  (~IsNull(raw) /\ UpperStr(Val(raw)) \in medication_mapping[k].variants)
                        => /\ ~IsNull(canonical)
                           /\ Val(canonical) \in StandardNames
                           /\ UpperStr(Val(canonical)) = medication_mapping[k].key

-----------------------------------------------------------------------------
(* Properties of the features *)

StartsWith(s, p) == Len(s) >= Len(p) /\ SubSeq(s, 1, Len(p)) = p

(* the condition indicators and the strings their codes start with *)
ConditionPrefixes ==
    [has_diabetes      |-> {S_E11},
     has_heart_disease |-> {S_I10, S_I5},
     has_copd          |-> {S_J44},
     has_ckd           |-> {S_N18},
     has_anxiety       |-> {S_F41}]

(* the rows of table t that belong to the patient of feature row g *)
RecordsOf(t, g) ==
    {i \in DOMAIN t : /\ ~IsNull(g.original_patient_id)
                      /\ ~IsNull(t[i].patient_id)
                      /\ Val(t[i].patient_id) = Val(g.original_patient_id)}

(* C15: for every patient row, each condition indicator is 1 iff the       *)
(* patient has an unflagged diagnosis whose canonical code starts with one *)
(* of the indicator's strings, and 0 otherwise; a code that holds the      *)
(* string at a later position does not set it.                             *)
C15_IndicatorsByPrefix ==
    "gold" \in written =>
        \A n \in DOMAIN gold :
            \A col \in DOMAIN ConditionPrefixes :
                LET has == \E i \in RecordsOf(diagnoses_silver, gold[n]) :
                              /\ IsNull(diagnoses_silver[i].data_quality_issue)
                              /\ ~IsNull(diagnoses_silver[i].diagnosis_code)
                              /\ \E p \in ConditionPrefixes[col] :
                                    StartsWith(Val(diagnoses_silver[i].diagnosis_code), p)
                IN  gold[n][col] = Some(IF has THEN 1 ELSE 0)

(* the medication indicators and the name each one looks for *)
MedicationIndicators ==
    [on_metformin     |-> S_Metformin,
     on_ace_inhibitor |-> S_Lisinopril,
     on_statin        |-> S_Atorvastatin]

(* C19: a medication whose name the cleaning changed contributes to no     *)
(* feature: on_metformin / on_ace_inhibitor / on_statin is 1 iff the       *)
(* patient_id has a medication whose raw name is exactly Metformin /       *)
(* Lisinopril / Atorvastatin, and num_medications is the number of the     *)
(* patient's medications whose raw name is present and equal to the        *)
(* canonical name.                                                         *)
C19_ChangedNamesContributeNothing ==
    "gold" \in written =>
        /\ DOMAIN meds_silver = DOMAIN meds_bronze
        /\ \A n \in DOMAIN gold :
              LET recs == RecordsOf(meds_bronze, gold[n])
              IN  /\ \A col \in DOMAIN MedicationIndicators :
                        gold[n][col] = Some(1)
                            <=> \E i \in recs : meds_bronze[i].medication_name
                                                   = Some(MedicationIndicators[col])
                  /\ \A col \in DOMAIN MedicationIndicators : gold[n][col] \in {Some(0), Some(1)}
                  /\ gold[n].num_medications =
                        Some(Cardinality({i \in recs :
                                /\ ~IsNull(meds_bronze[i].medication_name)
                                /\ meds_silver[i].medication_name
                                      = meds_bronze[i].medication_name}))

(* C19 witness: patient 1 has only the medication 'metformin', which the   *)
(* cleaning renames, and gets on_metformin 0 and num_medications 0;        *)
(* patient 2 has 'Lisinopril' and gets on_ace_inhibitor 1                  *)
C19_Witness ==
    /\ "gold" \in written
    /\ \E i \in DOMAIN meds_bronze :
          /\ meds_bronze[i].patient_id = Some(1)
          /\ meds_bronze[i].medication_name = Some(S_metformin)
          /\ meds_silver[i].medication_name = Some(S_Metformin)
    /\ \E n \in DOMAIN gold :
          /\ gold[n].original_patient_id = Some(1)
          /\ gold[n].on_metformin = Some(0)
          /\ gold[n].num_medications = Some(0)
    /\ \E n \in DOMAIN gold :
          /\ gold[n].original_patient_id = Some(2)
          /\ gold[n].on_ace_inhibitor = Some(1)
          /\ gold[n].num_medications = Some(1)

-----------------------------------------------------------------------------
(* Properties of failing runs *)

SilverTables == {"silver_patients", "silver_diagnoses", "silver_labs", "silver_meds"}

GoldTables == {"gold", "metrics"}

(* the four tables of the cleaned layer *)
SilverLayer == <<patients_silver, diagnoses_silver, labs_silver, meds_silver>>

(* C16: a stage fails as a unit: when a run has failed, it has overwritten *)
(* either none or all of the four cleaned tables, and either none or both  *)
(* of the feature table and the metrics table.                             *)
C16_StagesFailAtomically ==
    pc = "failed" =>
        /\ run_written \cap SilverTables \in {{}, SilverTables}
        /\ run_written \cap GoldTables \in {{}, GoldTables}

(* a step taken in the feature stage leaves the cleaned layer as it is *)
FeatureStageFrame == (pc \in {"gold", "metrics"}) => UNCHANGED SilverLayer

(* C17: the feature stage starts only after the run has written all four   *)
(* cleaned tables, and no step taken in the feature stage, a failure       *)
(* included, changes any of the four cleaned tables.                       *)
C17_NoCrossStageTransaction ==
    /\ [](pc \in {"gold", "metrics"} => SilverTables \subseteq run_written)
    /\ [][FeatureStageFrame]_vars

(* C17 witness: a run wrote the four cleaned tables, then failed while     *)
(* building the features; the cleaned tables hold what the run wrote       *)
C17_Witness ==
    /\ pc = "failed"
    /\ SilverTables \subseteq run_written
    /\ "gold" \notin run_written
    /\ patients_silver # << >>
    /\ \E rn \in RowNumbers(FingerprintsOf(patients_bronze), IdsOf(patients_bronze)) :
          patients_silver = PatientsSilverRows(patients_bronze, rn)
    /\ diagnoses_silver = DiagnosesSilverRows(diagnoses_bronze)
    /\ labs_silver = LabsSilverRows(labs_bronze)
    /\ meds_silver = MedsSilverRows(meds_bronze)

-----------------------------------------------------------------------------
(* Properties of the quality metrics *)

(* C20: in the metrics table of every run patients_duplicates equals       *)
(* patients_total minus patients_unique: the number of patient records     *)
(* with is_duplicate = 1 is the number of patient records minus the number *)
(* of distinct patient_key values.                                         *)
C20_DuplicatesAreTotalMinusUnique ==
    /\ ~IsNull(metrics) =>
          Val(metrics).patients_duplicates
              = Val(metrics).patients_total - Val(metrics).patients_unique
    /\ pc = "done" =>
          /\ ~IsNull(metrics)
          /\ Val(metrics).patients_total = Len(patients_silver)
          /\ Val(metrics).patients_unique
                = Cardinality({patients_silver[i].patient_key : i \in DOMAIN patients_silver})
          /\ Val(metrics).patients_duplicates
                = Cardinality({i \in DOMAIN patients_silver :
                                  patients_silver[i].is_duplicate = 1})

(* C20 witness: a run over two records of one person under two             *)
(* identifiers reports 2 records, 1 unique, 1 duplicate                    *)
C20_Witness ==
    /\ pc = "done"
    /\ ~IsNull(metrics)
    /\ Val(metrics).patients_total = 2
    /\ Val(metrics).patients_unique = 1
    /\ Val(metrics).patients_duplicates = 1
    /\ \E i, j \in DOMAIN patients_silver :
          patients_silver[i].original_patient_id # patients_silver[j].original_patient_id

====
